---------------------------- MODULE Spec2Model ----------------------------
(***************************************************************************)
(* SprintSolve: the round / game state machine of GameEngine (src/main.ts) *)
(* together with the obstacle pool, wall generator and collision detector  *)
(* (src/obstacles.ts), the character physics (src/character.ts), the game  *)
(* store (stores/gameStore) and the question provider (questions).         *)
(*                                                                         *)
(* Lengths are fixed-point numbers: one pixel is U units, so that the      *)
(* gravity 0.5 and the speed increment 0.2 of the source are integers.     *)
(* Canvas heights are chosen so that the wall-segment height               *)
(* (height - n * tunnelHeight) / (n + 1) is an exact quotient.             *)
(***************************************************************************)
EXTENDS Integers, Sequences, FiniteSets, TLC

\* ------------------------------------------------------------------ units
U == 10

\* ------------------------------------------------------- model bounds
\* gameplay ticks explored after one character reset
MaxTicks == 6
\* calls of resetForNewRound explored in one behaviour
MaxRounds == 3

\* window sizes (canvas.width / canvas.height follow the window)
CanvasWidths == {200 * U}
CanvasHeights == {70 * U, 540 * U}

\* ------------------------------------------------- character.ts constants
size == 60 * U
gravity == U \div 2
jump_strength == -10 * U
character_x == 150 * U

\* CharacterImpl as a record [y, velocity_y]; x never changes.
\* CharacterImpl.update, and the variant that moves before it accelerates
characterUpdate_positionFirst(c) ==
    [y |-> c.y + c.velocity_y, velocity_y |-> c.velocity_y + gravity]

characterUpdate(c) ==
    LET v == c.velocity_y + gravity
    IN  [y |-> c.y + v, velocity_y |-> v]

\* CharacterImpl.jump, and the variant that adds the impulse
characterJump_accumulate(c) ==
    [c EXCEPT !.velocity_y = @ + jump_strength]

characterJump(c) ==
    [c EXCEPT !.velocity_y = jump_strength]

\* CharacterImpl.reset(canvasHeight)
characterReset(c, ch) ==
    [y |-> ch \div 2, velocity_y |-> 0]

\* ------------------------------------------------- obstacles.ts constants
defaultWallWidth == 100 * U
defaultTunnelCount == 4
minTunnelHeight == 120 * U
maxPoolSize == 50
defaultCharacterSize == 60 * U

\* ------------------------------------------------- gameStore constants
initialGameSpeed == 4 * U
speedIncrement == U \div 5
maxGameSpeed == 12 * U
initialLives == 3

\* ------------------------------------------------------------ helpers
Min(a, b) == IF a < b THEN a ELSE b
Max(a, b) == IF a > b THEN a ELSE b

\* correctAnswer: number | null.  null is the empty tuple, index i is <<i>>,
\* so that  i === question.correctAnswer  is  <<i>> = question.correctAnswer.
null == << >>
Index(i) == << i >>

\* ------------------------------------------------------------ questions
\* questionState singleton after construction
emptyQuestion ==
    [text |-> "", correctAnswer |-> null, answers |-> << >>, display |-> FALSE]

\* the fallback question fetchQuestion resolves to on any failure
fallbackQuestion ==
    [text |-> "Error loading question. Please try again.",
     correctAnswer |-> null,
     answers |-> <<"Try Again", "Refresh Page", "Check Connection", "Continue">>,
     display |-> TRUE]

\* a question as the provider transforms it: answers and the correct index
AnswerTexts == <<"A", "B", "C", "D">>
apiQuestion(n, c) ==
    [text |-> "Q", correctAnswer |-> c,
     answers |-> SubSeq(AnswerTexts, 1, n), display |-> TRUE]

\* what a fetch of the engine can resolve to: a multiple-choice question
\* (three incorrect answers and the correct one, shuffled) or the fallback
ProviderQuestions ==
    {apiQuestion(4, Index(c)) : c \in 0..3} \cup {fallbackQuestion}

\* ------------------------------------------------------------ TriviaService
\* QuestionState.update: a field of the argument is assigned when it is not
\* undefined (null is assigned); and the variant that also skips a null
\* correctAnswer
questionStateUpdate_skipsNull(qs, question) ==
    [f \in DOMAIN qs |->
        IF f \in DOMAIN question
           /\ ~(f = "correctAnswer" /\ question[f] = null)
        THEN question[f] ELSE qs[f]]

questionStateUpdate(qs, question) ==
    [f \in DOMAIN qs |-> IF f \in DOMAIN question THEN question[f] ELSE qs[f]]

\* time is counted in steps of msPerStep milliseconds
msPerStep == 150000
cacheTimeout == (5 * 60 * 1000) \div msPerStep

\* the cache entry of the question URL: none, or the last JSON body stored
\* and the time it was stored at
noCache == [present |-> FALSE]
cached(data, timestamp) ==
    [present |-> TRUE, data |-> data, timestamp |-> timestamp]

\* one question as the API sends it, and the bodies and failures a request
\* can end in
apiItem(text, correct, incorrect) ==
    [question |-> text, correct_answer |-> correct,
     incorrect_answers |-> incorrect]
ApiItems ==
    {apiItem("Q&amp;A", "D", <<"A", "B", "C">>),
     apiItem("R", "A&B", <<"A&amp;B", "C">>)}
apiResponse(code, results) ==
    [kind |-> "json", response_code |-> code, results |-> results]
NetworkOutcomes ==
    {[kind |-> "networkError"], [kind |-> "httpError"], [kind |-> "badJson"],
     [kind |-> "json"]}
        \cup {apiResponse(code, results) :
                 code \in {0, 1},
                 results \in {<< >>} \cup {<<item>> : item \in ApiItems}}

\* decodeHtml on the texts used here
decodeHtml(html) ==
    CASE html = "Q&amp;A" -> "Q&A"
      [] html = "A&amp;B" -> "A&B"
      [] OTHER -> html

\* shuffleArray: the copy in the order the permutation  perm  of 1..4
\* gives to the positions of the array (at most four items)
RECURSIVE orderOf(_, _, _)
orderOf(perm, i, n) ==
    IF i > 4 THEN << >>
    ELSE (IF perm[i] <= n THEN <<perm[i]>> ELSE << >>)
             \o orderOf(perm, i + 1, n)
shuffleArray(array, perm) ==
    LET order == orderOf(perm, 1, Len(array))
    IN  [i \in 1..Len(array) |-> array[order[i]]]

\* Array.prototype.indexOf of an element that occurs in the array
indexOf(array, x) ==
    CHOOSE i \in 0..(Len(array) - 1) :
        /\ array[i + 1] = x
        /\ \A j \in 0..(i - 1) : array[j + 1] # x

\* transformQuestion, and the variant that takes the index before shuffling
transformQuestion_indexFirst(item, perm) ==
    LET incorrectAnswers ==
            [i \in 1..Len(item.incorrect_answers) |->
                decodeHtml(item.incorrect_answers[i])]
        correctAnswer == decodeHtml(item.correct_answer)
        allAnswers == shuffleArray(Append(incorrectAnswers, correctAnswer),
                                   perm)
    IN  [question |-> decodeHtml(item.question),
         answers |-> allAnswers,
         correct_answer |-> indexOf(Append(incorrectAnswers, correctAnswer),
                                    correctAnswer)]

transformQuestion(item, perm) ==
    LET incorrectAnswers ==
            [i \in 1..Len(item.incorrect_answers) |->
                decodeHtml(item.incorrect_answers[i])]
        correctAnswer == decodeHtml(item.correct_answer)
        allAnswers == shuffleArray(Append(incorrectAnswers, correctAnswer),
                                   perm)
    IN  [question |-> decodeHtml(item.question),
         answers |-> allAnswers,
         correct_answer |-> indexOf(allAnswers, correctAnswer)]

\* fetchWithCache: a cache entry younger than cacheTimeout is returned;
\* otherwise the request is made, a failure is thrown on and a JSON body is
\* cached and returned
\* the check of the cache entry made when the call is issued
cacheFresh_shortWindow(c, t) ==
    c.present /\ t - c.timestamp < cacheTimeout - 1

cacheFresh(c, t) ==
    c.present /\ t - c.timestamp < cacheTimeout

\* fresh is the outcome of that check, t the time the response arrives at;
\* request tells whether the request was made and how it ended
fetchWithCache(c, fresh, t, net) ==
    IF fresh
    THEN [threw |-> FALSE, data |-> c.data, cache |-> c, request |-> "none"]
    ELSE IF net.kind # "json"
         THEN [threw |-> TRUE, cache |-> c, request |-> "failed"]
         ELSE [threw |-> FALSE, data |-> net, cache |-> cached(net, t),
               request |-> "ok"]

\* the try block of fetchQuestion: the question, or an exception
fetchQuestionTry(c, fresh, t, net, perm) ==
    LET r == fetchWithCache(c, fresh, t, net)
        thrown == [threw |-> TRUE, cache |-> r.cache, request |-> r.request]
    IN  IF r.threw THEN r
        ELSE IF "response_code" \notin DOMAIN r.data THEN thrown
        ELSE IF r.data.response_code # 0 THEN thrown
        ELSE IF Len(r.data.results) = 0 THEN thrown
        ELSE LET transformed == transformQuestion(r.data.results[1], perm)
             IN  [threw |-> FALSE, cache |-> r.cache, request |-> r.request,
                  question |-> [text |-> transformed.question,
                                correctAnswer |->
                                    Index(transformed.correct_answer),
                                answers |-> transformed.answers,
                                display |-> TRUE]]

\* fetchQuestion: the try block, and the catch that resolves to the fallback
fetchQuestion(qs, c, fresh, t, net, perm) ==
    LET r == fetchQuestionTry(c, fresh, t, net, perm)
        question == IF r.threw THEN fallbackQuestion ELSE r.question
    IN  [settled |-> "resolved", value |-> question, cache |-> r.cache,
         request |-> r.request,
         questionState |-> questionStateUpdate(qs, question)]

\* ------------------------------------------------------------ ObstaclePool
\* The pool state is a record  [ao, at, op, tp]  of the four arrays
\* activeObstacles, activeTunnels, obstaclePool, tunnelPool.
emptyPool == [ao |-> << >>, at |-> << >>, op |-> << >>, tp |-> << >>]

\* An instance carries its object identity in  ref : reset() keeps it, and
\* new gives an identity that no instance in the two arrays of the class has.
Obstacle(ref, ox, oy, w, h) ==
    [ref |-> ref, x |-> ox, y |-> oy, width |-> w, height |-> h]
Tunnel(ref, tx, ty, w, h, isCorrect, answerText) ==
    [ref |-> ref, x |-> tx, y |-> ty, width |-> w, height |-> h,
     isCorrect |-> isCorrect, answerText |-> answerText]

\* the identities of the instances in an array
refsOf(seq) == {seq[k].ref : k \in 1..Len(seq)}

\* the identity that new gives: none of those in  active  and  free
newRef(active, free) ==
    LET used == refsOf(active) \cup refsOf(free)
    IN  IF used = {} THEN 1
        ELSE 1 + CHOOSE m \in used : \A r \in used : r <= m

\* ObstacleImpl.reset
resetObstacle(o, ox, oy, w, h) ==
    [o EXCEPT !.x = ox, !.y = oy, !.width = w, !.height = h]

\* TunnelImpl.reset, and the variant that leaves isCorrect as it was
resetTunnel_keepsIsCorrect(t, tx, ty, w, h, isCorrect, answerText) ==
    [t EXCEPT !.x = tx, !.y = ty, !.width = w, !.height = h,
              !.answerText = answerText]

resetTunnel(t, tx, ty, w, h, isCorrect, answerText) ==
    [t EXCEPT !.x = tx, !.y = ty, !.width = w, !.height = h,
              !.isCorrect = isCorrect, !.answerText = answerText]

\* pop a pooled instance and reset() it, or construct one; push it on active
\* (and the variant that takes the pooled instance without removing it)
createObstacle_noPop(p, ox, oy, w, h) ==
    [p EXCEPT !.ao = Append(p.ao,
                        IF Len(p.op) > 0
                        THEN resetObstacle(p.op[Len(p.op)], ox, oy, w, h)
                        ELSE Obstacle(newRef(p.ao, p.op), ox, oy, w, h))]

createObstacle(p, ox, oy, w, h) ==
    [p EXCEPT !.op = IF Len(p.op) > 0 THEN SubSeq(p.op, 1, Len(p.op) - 1)
                     ELSE p.op,
              !.ao = Append(p.ao,
                        IF Len(p.op) > 0
                        THEN resetObstacle(p.op[Len(p.op)], ox, oy, w, h)
                        ELSE Obstacle(newRef(p.ao, p.op), ox, oy, w, h))]

createTunnel(p, tx, ty, w, h, isCorrect, answerText) ==
    [p EXCEPT !.tp = IF Len(p.tp) > 0 THEN SubSeq(p.tp, 1, Len(p.tp) - 1)
                     ELSE p.tp,
              !.at = Append(p.at,
                        IF Len(p.tp) > 0
                        THEN resetTunnel(p.tp[Len(p.tp)], tx, ty, w, h,
                                         isCorrect, answerText)
                        ELSE Tunnel(newRef(p.at, p.tp), tx, ty, w, h,
                                    isCorrect, answerText))]

\* push the items of  items  on  pool  one by one while it is below the cap
RECURSIVE pushBounded(_, _)
pushBounded(pool, items) ==
    IF items = << >> THEN pool
    ELSE pushBounded(IF Len(pool) < maxPoolSize
                     THEN Append(pool, Head(items)) ELSE pool,
                     Tail(items))

\* ObstaclePool.clear, and the variant that returns every active item
clear_uncapped(p) ==
    [ao |-> << >>, at |-> << >>, op |-> p.op \o p.ao, tp |-> p.tp \o p.at]

clear(p) ==
    [ao |-> << >>, at |-> << >>,
     op |-> pushBounded(p.op, p.ao),
     tp |-> pushBounded(p.tp, p.at)]

\* the off-screen test of ObstaclePool.update, and its inclusive variant
offScreen_inclusive(item) == item.x + item.width <= 0

offScreen(item) == item.x + item.width < 0

\* one array of ObstaclePool.update: the loop runs from the last index down,
\* shifts every item and splices the ones that left the screen into the pool
RECURSIVE updateLoop(_, _, _, _)
updateLoop(active, pool, i, gameSpeed) ==
    IF i < 1 THEN [active |-> active, pool |-> pool]
    ELSE LET item == [active[i] EXCEPT !.x = @ - gameSpeed]
         IN  IF offScreen(item)
             THEN updateLoop(SubSeq(active, 1, i - 1)
                                \o SubSeq(active, i + 1, Len(active)),
                             IF Len(pool) < maxPoolSize
                             THEN Append(pool, item) ELSE pool,
                             i - 1, gameSpeed)
             ELSE updateLoop([active EXCEPT ![i] = item], pool,
                             i - 1, gameSpeed)

\* ObstaclePool.update, and the variant that leaves the tunnels where they are
update_segmentsOnly(p, gameSpeed) ==
    LET o == updateLoop(p.ao, p.op, Len(p.ao), gameSpeed)
    IN  [ao |-> o.active, at |-> p.at, op |-> o.pool, tp |-> p.tp]

update(p, gameSpeed) ==
    LET o == updateLoop(p.ao, p.op, Len(p.ao), gameSpeed)
        t == updateLoop(p.at, p.tp, Len(p.at), gameSpeed)
    IN  [ao |-> o.active, at |-> t.active, op |-> o.pool, tp |-> t.pool]

\* ------------------------------------------------------------ WallGenerator
\* isCorrect = (i === question.correctAnswer), and the variant that counts
\* the answers from one
isCorrectTunnel_fromOne(i, question) == Index(i + 1) = question.correctAnswer

isCorrectTunnel(i, question) == Index(i) = question.correctAnswer

\* the for loop of WallGenerator.generateWallWithTunnels, from index i
RECURSIVE wallLoop(_, _, _, _, _, _, _, _)
wallLoop(p, i, currentY, cw, numberOfTunnels, wallSegmentHeight, tunnelHeight, question) ==
    IF i >= numberOfTunnels + 1 THEN p
    ELSE LET p1 == createObstacle(p, cw, currentY, defaultWallWidth,
                                  wallSegmentHeight)
         IN  IF i < numberOfTunnels /\ i < Len(question.answers)
             THEN wallLoop(createTunnel(p1, cw, currentY + wallSegmentHeight,
                                        defaultWallWidth, tunnelHeight,
                                        isCorrectTunnel(i, question),
                                        question.answers[i + 1]),
                           i + 1,
                           currentY + wallSegmentHeight + tunnelHeight,
                           cw, numberOfTunnels, wallSegmentHeight,
                           tunnelHeight, question)
             ELSE wallLoop(p1, i + 1, currentY, cw, numberOfTunnels,
                           wallSegmentHeight, tunnelHeight, question)

\* WallGenerator.generateWallWithTunnels(canvas, question, characterSize),
\* and the variant that divides the solid height by the number of tunnels
wallGenerator_perTunnel(p, cw, ch, question, characterSize) ==
    LET numberOfTunnels == Min(defaultTunnelCount, Len(question.answers))
        tunnelHeight == Max(minTunnelHeight, characterSize * 2)
        totalTunnelHeight == numberOfTunnels * tunnelHeight
        totalWallHeight == ch - totalTunnelHeight
    IN  IF totalWallHeight < 0 THEN p
        ELSE wallLoop(p, 0, 0, cw, numberOfTunnels,
                      totalWallHeight \div numberOfTunnels,
                      tunnelHeight, question)

wallGenerator(p, cw, ch, question, characterSize) ==
    LET numberOfTunnels == Min(defaultTunnelCount, Len(question.answers))
        tunnelHeight == Max(minTunnelHeight, characterSize * 2)
        totalTunnelHeight == numberOfTunnels * tunnelHeight
        totalWallHeight == ch - totalTunnelHeight
    IN  IF totalWallHeight < 0 THEN p
        ELSE wallLoop(p, 0, 0, cw, numberOfTunnels,
                      totalWallHeight \div (numberOfTunnels + 1),
                      tunnelHeight, question)

\* exported generateWallWithTunnels(canvas, questionState), and the variant
\* that reads a null correctAnswer as index 0
generateWallWithTunnels_nullAsFirst(p, cw, ch, question) ==
    wallGenerator(clear(p), cw, ch,
                  [question EXCEPT !.correctAnswer =
                                      IF @ = null THEN Index(0) ELSE @],
                  defaultCharacterSize)

generateWallWithTunnels(p, cw, ch, question) ==
    wallGenerator(clear(p), cw, ch, question, defaultCharacterSize)

\* --------------------------------------------------------- CollisionDetector
isRectColliding(cy, obstacle) ==
    /\ character_x + size \div 2 > obstacle.x
    /\ character_x - size \div 2 < obstacle.x + obstacle.width
    /\ cy + size \div 2 > obstacle.y
    /\ cy - size \div 2 < obstacle.y + obstacle.height

isCharacterInTunnel(cy, tunnel) ==
    /\ cy >= tunnel.y
    /\ cy <= tunnel.y + tunnel.height

\* the classification of the tunnel the character is in
tunnelResult_inverted(tunnel) ==
    IF tunnel.isCorrect THEN "incorrect" ELSE "correct"

tunnelResult(tunnel) ==
    IF tunnel.isCorrect THEN "correct" ELSE "incorrect"

\* the tunnel loop: the first tunnel, in array order, that contains the
\* character's centre decides; the fallback after the loop is "wall"
RECURSIVE tunnelLoop(_, _, _)
tunnelLoop(cy, tunnels, i) ==
    IF i > Len(tunnels) THEN "wall"
    ELSE IF isCharacterInTunnel(cy, tunnels[i])
         THEN tunnelResult(tunnels[i])
         ELSE tunnelLoop(cy, tunnels, i + 1)

\* solid parts first, then the tunnels, then the fallback
classify_tunnelsFirst(cy, obstacles, tunnels) ==
    IF \E k \in 1..Len(tunnels) : isCharacterInTunnel(cy, tunnels[k])
    THEN tunnelLoop(cy, tunnels, 1)
    ELSE "wall"

classify(cy, obstacles, tunnels) ==
    IF \E k \in 1..Len(obstacles) : isRectColliding(cy, obstacles[k])
    THEN "wall"
    ELSE tunnelLoop(cy, tunnels, 1)

\* the horizontal gate: the character is not aligned with the wall band
\* (and a left edge that lies beyond every wall band)
charRight == character_x + size \div 2
charLeft_pastWall == character_x + 10 * size
charLeft == character_x - size \div 2

notAligned_exclusive(wallX, wallWidth) ==
    charRight <= wallX \/ charLeft >= wallX + wallWidth

notAligned(wallX, wallWidth) ==
    charRight < wallX \/ charLeft > wallX + wallWidth

\* the floor and ceiling tests
boundaryCheck(cy, ch) ==
    LET characterHalfSize == size \div 2
    IN  IF cy - characterHalfSize <= 0 THEN "ceiling"
        ELSE IF cy + characterHalfSize >= ch THEN "floor"
        ELSE "null"

\* the part of checkCollisions after the floor and ceiling tests
wallCheck_noGate(cy, obstacles, tunnels) ==
    IF Len(obstacles) = 0 THEN "null"
    ELSE classify(cy, obstacles, tunnels)

wallCheck(cy, obstacles, tunnels) ==
    IF Len(obstacles) = 0 THEN "null"
    ELSE IF notAligned(obstacles[1].x, obstacles[1].width) THEN "null"
    ELSE classify(cy, obstacles, tunnels)

checkCollisions_wallFirst(cy, ch, obstacles, tunnels) ==
    IF wallCheck(cy, obstacles, tunnels) # "null"
    THEN wallCheck(cy, obstacles, tunnels)
    ELSE boundaryCheck(cy, ch)

\* CollisionDetector.checkCollisions(character, canvas); "null" is null
checkCollisions(cy, ch, obstacles, tunnels) ==
    IF boundaryCheck(cy, ch) # "null"
    THEN boundaryCheck(cy, ch)
    ELSE wallCheck(cy, obstacles, tunnels)

\* ------------------------------------------------------------------ state
VARIABLES
    canvasWidth, canvasHeight,      \* canvas.width, canvas.height
    gameState, score, lives,        \* game store
    hasShield, gameSpeed,
    collisionProcessed,             \* GameEngine fields
    roundJustStarted,
    character_y, velocity_y,        \* character.y, character.velocity_y
    activeObstacles, activeTunnels, \* ObstaclePool arrays
    obstaclePool, tunnelPool,
    questionState,                  \* questionState singleton
    pendingFetches,                 \* resetForNewRound calls awaiting the fetch
    staleFetches,                   \* ... of which started before a game over / restart
    newRoundTimers,                 \* pending setTimeout(resetForNewRound, 500)
    shieldTimers,                   \* pending setTimeout(clear flag, 100)
    collisionResult,                \* the local of updateGameplay / the last result
    rounds,                         \* history: calls of resetForNewRound
    ticks,                          \* history: gameplay ticks since character.reset
    handled,                        \* history: handleCollision calls since the
                                    \* last completed resetForNewRound
    experience,                     \* game store: experience points
    musicPlaying,                   \* audio: the background music is on
    cache,                          \* TriviaService.cache entry of the question
    fetchSettled,                   \* how the last fetchQuestion promise settled
    fetchResult,                    \* the question it resolved to
    fetchFailed,                    \* history: that call met a failure
    now,                            \* Date.now(), in steps of msPerStep
    request,                        \* history: the network request of that call
    requests,                       \* fetchQuestion calls awaiting their response
    served,                         \* history: text and cache time of the calls
                                    \* served from a JSON body of late
    queue,                          \* QuestionQueue.queue
    fetches,                        \* fetchMultipleQuestions calls in flight
    nexts,                          \* the QuestionQueue.next() calls made
    calls,                          \* history: calls made on a unit alone
    updates,                        \* history: update() calls since the start
    start_y, start_velocity_y       \* history: the character at that start

storeVars == <<gameState, score, lives, hasShield, gameSpeed, experience>>
queueVars == <<queue, fetches, nexts>>
providerVars == <<cache, fetchSettled, fetchResult, fetchFailed, now, request,
                  requests, served, queueVars>>
engineVars == <<collisionProcessed, roundJustStarted>>
characterVars == <<character_y, velocity_y>>
poolVars == <<activeObstacles, activeTunnels, obstaclePool, tunnelPool>>
canvasVars == <<canvasWidth, canvasHeight>>
asyncVars == <<pendingFetches, staleFetches, newRoundTimers, shieldTimers>>
historyVars == <<rounds, ticks, handled>>
unitVars == <<calls, updates, start_y, start_velocity_y>>

vars == <<canvasWidth, canvasHeight, gameState, score, lives, hasShield,
          gameSpeed, collisionProcessed, roundJustStarted, character_y,
          velocity_y, activeObstacles, activeTunnels, obstaclePool,
          tunnelPool, questionState, pendingFetches, staleFetches,
          newRoundTimers, shieldTimers, collisionResult, rounds, ticks,
          handled, calls, updates, start_y, start_velocity_y, experience,
          musicPlaying, cache, fetchSettled, fetchResult, fetchFailed, now,
          request, requests, served, queue, fetches, nexts>>

\* the ObstaclePool singleton as one record, and its assignment
pool == [ao |-> activeObstacles, at |-> activeTunnels,
         op |-> obstaclePool, tp |-> tunnelPool]

\* the character singleton as one record
character == [y |-> character_y, velocity_y |-> velocity_y]

SetPool(p) ==
    /\ activeObstacles' = p.ao
    /\ activeTunnels' = p.at
    /\ obstaclePool' = p.op
    /\ tunnelPool' = p.tp

\* ------------------------------------------------------------------ Init
\* the state after  new GameEngine('gameCanvas')  and init(); the window
\* keeps its size during a behaviour
EngineInit ==
    /\ gameState = "menu"
    /\ score = 0
    /\ lives = initialLives
    /\ hasShield = FALSE
    /\ gameSpeed = initialGameSpeed
    /\ collisionProcessed = FALSE
    /\ roundJustStarted = TRUE
    /\ pendingFetches = 0
    /\ staleFetches = 0
    /\ newRoundTimers = 0
    /\ shieldTimers = 0
    /\ collisionResult = "unset"
    /\ rounds = 0
    /\ ticks = 0
    /\ handled = 0
    /\ experience = 0
    /\ musicPlaying = FALSE
    /\ cache = noCache
    /\ fetchSettled = "none"
    /\ fetchResult = emptyQuestion
    /\ fetchFailed = FALSE
    /\ now = 0
    /\ request = "none"
    /\ requests = 0
    /\ served = {}
    /\ queue = << >>
    /\ fetches = << >>
    /\ nexts = << >>
    /\ calls = 0
    /\ updates = 0
    /\ start_y = character_y
    /\ start_velocity_y = velocity_y

Init ==
    /\ canvasWidth \in CanvasWidths
    /\ canvasHeight \in CanvasHeights
    /\ character_y = 0
    /\ velocity_y = 0
    /\ activeObstacles = << >>
    /\ activeTunnels = << >>
    /\ obstaclePool = << >>
    /\ tunnelPool = << >>
    /\ questionState = emptyQuestion
    /\ EngineInit

\* ------------------------------------------------------------- GameEngine
\* resetForNewRound up to its await: character.reset and the fetch request
resetForNewRoundCall ==
    /\ rounds < MaxRounds
    /\ character_y' = characterReset(character, canvasHeight).y
    /\ velocity_y' = characterReset(character, canvasHeight).velocity_y
    /\ rounds' = rounds + 1
    /\ ticks' = 0

\* handleCollision and the handlers it dispatches to, as a function of the
\* engine and store fields  e  they read and write
\* store action incrementScore: score + 1 and 10 experience points
incrementScore(e) ==
    [e EXCEPT !.score = @ + 1, !.experience = @ + 10]

\* store action addExperience(xp)
addExperience(e, xp) ==
    [e EXCEPT !.experience = @ + xp]

\* store action decrementLives, and the variant that takes two lives
decrementLives_byTwo(e) ==
    LET newLives == Max(0, e.lives - 2)
    IN  [e EXCEPT !.lives = newLives,
                  !.gameState = IF newLives = 0 THEN "gameOver" ELSE @]

decrementLives(e) ==
    LET newLives == Max(0, e.lives - 1)
    IN  [e EXCEPT !.lives = newLives,
                  !.gameState = IF newLives = 0 THEN "gameOver" ELSE @]

\* GameEngine.gameOver: music stopped (with the game-over sound and the
\* explosion), then the state change; and the variant without the latter
gameOver_keepsState(e) ==
    [e EXCEPT !.musicPlaying = FALSE]

gameOver(e) ==
    [e EXCEPT !.musicPlaying = FALSE, !.gameState = "gameOver"]

\* handleCorrectAnswer, and the variant that adds the increment uncapped
handleCorrectAnswer_uncapped(e) ==
    LET e1 == addExperience(incrementScore(e), 10)
    IN  [e1 EXCEPT !.gameSpeed = @ + speedIncrement,
                   !.newRoundTimers = @ + 1]

handleCorrectAnswer(e) ==
    LET e1 == addExperience(incrementScore(e), 10)
    IN  [e1 EXCEPT !.gameSpeed = Min(@ + speedIncrement, maxGameSpeed),
                   !.newRoundTimers = @ + 1]

handleIncorrectAnswer(e) ==
    LET e1 == decrementLives(e)
    IN  [e1 EXCEPT !.newRoundTimers = IF e1.lives > 0 THEN @ + 1 ELSE @]

\* handleWallCollision, and the variant that ends the game despite a shield
handleWallCollision_ignoresShield(e) ==
    gameOver(e)

handleWallCollision(e) ==
    IF e.hasShield
    THEN [e EXCEPT !.hasShield = FALSE, !.shieldTimers = @ + 1]
    ELSE gameOver(e)

handleCollision(e, result) ==
    LET e1 == [e EXCEPT !.collisionProcessed = TRUE, !.handled = @ + 1]
    IN  CASE result = "correct" -> handleCorrectAnswer(e1)
          [] result = "incorrect" -> handleIncorrectAnswer(e1)
          [] result \in {"wall", "ceiling", "floor"} -> handleWallCollision(e1)
          [] OTHER -> e1

\* the collision part of updateGameplay: the guard, the check, the dispatch
checkAndHandle_noGuard(e, result) ==
    IF result # "null" THEN handleCollision(e, result) ELSE e

checkAndHandle(e, result) ==
    IF ~e.collisionProcessed
    THEN (IF result # "null" THEN handleCollision(e, result) ELSE e)
    ELSE e

engineFields ==
    [collisionProcessed |-> collisionProcessed, handled |-> handled,
     score |-> score, lives |-> lives, hasShield |-> hasShield,
     gameSpeed |-> gameSpeed, gameState |-> gameState,
     newRoundTimers |-> newRoundTimers, shieldTimers |-> shieldTimers,
     experience |-> experience, musicPlaying |-> musicPlaying]

\* updateGameplay: physics, obstacle scroll, then the guarded collision check
updateGameplay ==
    /\ ticks < MaxTicks
    /\ LET vy == characterUpdate(character).velocity_y
           cy == characterUpdate(character).y
           p == update(pool, gameSpeed)
           result == checkCollisions(cy, canvasHeight, p.ao, p.at)
           e == checkAndHandle(engineFields, result)
       IN  /\ velocity_y' = vy
           /\ character_y' = cy
           /\ SetPool(p)
           /\ collisionResult' = IF collisionProcessed THEN "unset" ELSE result
           /\ collisionProcessed' = e.collisionProcessed
           /\ handled' = e.handled
           /\ score' = e.score
           /\ lives' = e.lives
           /\ hasShield' = e.hasShield
           /\ gameSpeed' = e.gameSpeed
           /\ gameState' = e.gameState
           /\ experience' = e.experience
           /\ musicPlaying' = e.musicPlaying
           /\ newRoundTimers' = e.newRoundTimers
           /\ shieldTimers' = e.shieldTimers
           \* fetches outstanding when the game ends are superseded
           /\ pendingFetches' = IF e.gameState = "gameOver" THEN 0
                                ELSE pendingFetches
           /\ staleFetches' = IF e.gameState = "gameOver"
                              THEN staleFetches + pendingFetches
                              ELSE staleFetches
    /\ ticks' = ticks + 1
    /\ UNCHANGED <<canvasWidth, canvasHeight, roundJustStarted,
                   questionState, rounds, unitVars, providerVars>>

\* update(deltaTime): one frame of the game loop
Tick_whilePaused ==
    IF gameState \in {"playing", "paused"}
    THEN updateGameplay ELSE UNCHANGED vars

Tick ==
    IF gameState = "playing" THEN updateGameplay ELSE UNCHANGED vars

\* handleJump, reached from keydown / click / touch while playing
Jump ==
    /\ gameState = "playing"
    /\ roundJustStarted' = FALSE
    /\ velocity_y' = characterJump(character).velocity_y
    /\ character_y' = characterJump(character).y
    /\ UNCHANGED <<canvasVars, providerVars, musicPlaying, storeVars, collisionProcessed,
                   poolVars, questionState, asyncVars, collisionResult,
                   historyVars, unitVars>>

\* handleKeyDown, KeyP
TogglePause ==
    /\ gameState \in {"playing", "paused"}
    /\ gameState' = IF gameState = "playing" THEN "paused" ELSE "playing"
    /\ UNCHANGED <<canvasVars, providerVars, musicPlaying, score, lives,
                   hasShield, gameSpeed, experience, engineVars,
                   characterVars, poolVars, questionState, asyncVars,
                   collisionResult, historyVars, unitVars>>

\* handleKeyDown, Escape, and handleVisibilityChange with the tab hidden
\* (and the variant that pauses whatever the state is)
PauseOnly_anyState ==
    /\ gameState # "paused"
    /\ gameState' = "paused"
    /\ UNCHANGED <<canvasVars, providerVars, musicPlaying, score, lives,
                   hasShield, gameSpeed, experience, engineVars,
                   characterVars, poolVars, questionState, asyncVars,
                   collisionResult, historyVars, unitVars>>

PauseOnly ==
    /\ gameState = "playing"
    /\ gameState' = "paused"
    /\ UNCHANGED <<canvasVars, providerVars, musicPlaying, score, lives,
                   hasShield, gameSpeed, experience, engineVars,
                   characterVars, poolVars, questionState, asyncVars,
                   collisionResult, historyVars, unitVars>>

\* handleMenuClick on the start button: startGame
MenuClick ==
    /\ gameState = "menu"
    /\ gameState' = "playing"
    /\ score' = 0
    /\ resetForNewRoundCall
    /\ pendingFetches' = pendingFetches + 1
    /\ musicPlaying' = TRUE
    /\ UNCHANGED <<canvasVars, providerVars, lives, hasShield, gameSpeed,
                   experience, engineVars,
                   poolVars, questionState, staleFetches, newRoundTimers,
                   shieldTimers, collisionResult, handled, unitVars>>

\* store action resetGame (its gameState 'menu' is overwritten by startGame),
\* and the variant that keeps the speed of the game that ended
resetGame_keepsSpeed ==
    /\ score' = 0
    /\ hasShield' = FALSE
    /\ gameSpeed' = gameSpeed
    /\ lives' = initialLives

resetGame ==
    /\ score' = 0
    /\ hasShield' = FALSE
    /\ gameSpeed' = initialGameSpeed
    /\ lives' = initialLives

\* handleGameOverClick on the button: restartGame = resetGame,
\* clearObstacles, startGame
GameOverClick ==
    /\ gameState = "gameOver"
    /\ gameState' = "playing"
    /\ resetGame
    /\ SetPool(clear(pool))
    /\ resetForNewRoundCall
    /\ pendingFetches' = 1
    /\ staleFetches' = staleFetches + pendingFetches
    /\ musicPlaying' = TRUE
    /\ UNCHANGED <<canvasVars, providerVars, experience, engineVars,
                   questionState, newRoundTimers,
                   shieldTimers, collisionResult, handled, unitVars>>

\* the continuation of resetForNewRound after  await fetchQuestion : the
\* provider has stored the question  q  in questionState
resetForNewRoundResume(q) ==
    /\ questionState' = q
    /\ SetPool(generateWallWithTunnels(pool, canvasWidth, canvasHeight, q))
    /\ collisionProcessed' = FALSE
    /\ roundJustStarted' = TRUE
    /\ handled' = 0

\* a fetch resolves (a question or the fallback); stale tells which one
FetchResolve ==
    \E q \in ProviderQuestions, stale \in BOOLEAN :
        /\ IF stale THEN staleFetches > 0 ELSE pendingFetches > 0
        /\ staleFetches' = IF stale THEN staleFetches - 1 ELSE staleFetches
        /\ pendingFetches' = IF stale THEN pendingFetches
                             ELSE pendingFetches - 1
        /\ resetForNewRoundResume(q)
        /\ UNCHANGED <<canvasVars, providerVars, musicPlaying, storeVars, characterVars, newRoundTimers,
                       shieldTimers, collisionResult, rounds, ticks,
                       unitVars>>

\* a setTimeout callback runs
TimerFire ==
    \E kind \in {"newRound", "shield"} :
        IF kind = "newRound"
        THEN /\ newRoundTimers > 0
             /\ newRoundTimers' = newRoundTimers - 1
             /\ resetForNewRoundCall
             /\ pendingFetches' = pendingFetches + 1
             /\ UNCHANGED <<canvasVars, providerVars, musicPlaying, storeVars, engineVars, poolVars,
                            questionState, staleFetches, shieldTimers,
                            collisionResult, handled, unitVars>>
        ELSE /\ shieldTimers > 0
             /\ shieldTimers' = shieldTimers - 1
             /\ collisionProcessed' = FALSE
             /\ UNCHANGED <<canvasVars, providerVars, musicPlaying, storeVars, roundJustStarted,
                            characterVars, poolVars, questionState,
                            pendingFetches, staleFetches, newRoundTimers,
                            collisionResult, historyVars, unitVars>>

Next ==
    \/ Tick
    \/ Jump
    \/ TogglePause
    \/ PauseOnly
    \/ MenuClick
    \/ GameOverClick
    \/ FetchResolve
    \/ TimerFire

Spec == Init /\ [][Next]_vars

\* ------------------------------------------------------------ properties
\* what checkCollisions returns for the character and geometry of a state
collisionNow ==
    checkCollisions(character_y, canvasHeight, activeObstacles, activeTunnels)

outstandingFetches == pendingFetches + staleFetches

\* C1: exactly-once resolution.  Between two completed resetForNewRound
\* calls handleCollision runs at most once, and a tick in state 'playing'
\* whose collision check gives (or would give) a tunnel result leaves the
\* wall resolved exactly once: if the flag was clear the tick handles the
\* result, changing score by +1 or lives by -1, and if the flag was set the
\* tick changes neither score nor lives.
C1_ExactlyOnce ==
    [][ /\ handled' <= 1
        /\ ( /\ gameState = "playing"
             /\ ticks' = ticks + 1
             /\ collisionNow' \in {"correct", "incorrect"} )
           => /\ handled' = 1
              /\ collisionProcessed'
              /\ collisionProcessed
                   => score' = score /\ lives' = lives /\ handled' = handled
              /\ ~collisionProcessed
                   => /\ handled' = handled + 1
                      /\ \/ score' = score + 1 /\ lives' = lives
                         \/ score' = score /\ lives' = lives - 1
      ]_vars

\* a tick ran with the flag set while the character overlaps a tunnel of a
\* wall whose 'correct' result was handled on an earlier tick
C1_Witness ==
    /\ gameState = "playing"
    /\ collisionProcessed
    /\ handled = 1
    /\ score = 1
    /\ newRoundTimers = 1
    /\ collisionResult = "unset"
    /\ collisionNow = "correct"

\* C2: a fetch that was outstanding at a game over or restart is discarded
\* when it resolves: it changes neither the active geometry nor
\* collisionProcessed nor roundJustStarted.
C2_StaleFetchDiscarded ==
    [][ staleFetches' = staleFetches - 1
          => UNCHANGED <<activeObstacles, activeTunnels, collisionProcessed,
                         roundJustStarted>>
      ]_vars

\* C3: at most one resetForNewRound question fetch is outstanding.
C3_SingleFetch == outstandingFetches <= 1

\* C4: while a fetch is outstanding no collision result is handled and no
\* resetForNewRound is scheduled or started.
C4_QuietWhileFetching ==
    [][ outstandingFetches > 0
          => /\ handled' <= handled
             /\ newRoundTimers' <= newRoundTimers
             /\ rounds' = rounds
      ]_vars

\* a complete wall for the current question stands at the right canvas edge
completeNewWall ==
    LET n == Min(defaultTunnelCount, Len(questionState.answers))
    IN  /\ Len(activeObstacles) = n + 1
        /\ Len(activeTunnels) = n
        /\ \A k \in 1..Len(activeObstacles) :
               activeObstacles[k].x = canvasWidth
        /\ \A k \in 1..Len(activeTunnels) : activeTunnels[k].x = canvasWidth

\* C5: collisionProcessed goes from true to false only in a step that put a
\* complete new wall in place of the previous active geometry.
C5_ClearedOnlyByNewWall ==
    [][ (collisionProcessed /\ ~collisionProcessed') => completeNewWall' ]_vars

\* ------------------------------------------------- collision detector alone
\* checkCollisions as a function of its inputs: the canvas height, the
\* active geometry (a wall generated from a question and scrolled to some
\* x, or none) and the character's vertical position.

\* canvas heights: 50 px (ceiling and floor conditions can hold together),
\* 420 px (layout error for four answers), 480 px (segments of height 0
\* for four answers) and 600 px
CollideHeights == {50 * U, 420 * U, 480 * U, 600 * U}

\* questions with 1 to 4 answers, every correct index and null
CollideQuestions ==
    {apiQuestion(n, Index(c)) : n \in 1..4, c \in 0..3}
        \cup {apiQuestion(n, null) : n \in 1..4}
        \cup {fallbackQuestion}

validQuestion(q) ==
    q.correctAnswer = null \/ q.correctAnswer[1] < Len(q.answers)

\* wall positions: at the canvas edge, around the two touching positions
\* charRight = wallX and charLeft = wallX + wallWidth, and in between
CollideWallXs ==
    {200 * U, charRight + 1, charRight, charRight - 1, character_x,
     charLeft - defaultWallWidth + 1, charLeft - defaultWallWidth,
     charLeft - defaultWallWidth - 1}

\* the wall of  p  scrolled to x = wx
moveWall(p, wx) ==
    [p EXCEPT !.ao = [k \in 1..Len(p.ao) |-> [p.ao[k] EXCEPT !.x = wx]],
              !.at = [k \in 1..Len(p.at) |-> [p.at[k] EXCEPT !.x = wx]]]

\* vertical positions: a coarse grid over the canvas, the ceiling and floor
\* thresholds, and for every tunnel and segment its edges and its middle
YGrid == 20 * U
CollideYs(ch, obstacles, tunnels) ==
    {k * YGrid : k \in 0..(ch \div YGrid)}
      \cup {size \div 2, size \div 2 + 1, ch - size \div 2,
            ch - size \div 2 - 1}
      \cup UNION {{tunnels[k].y - 1, tunnels[k].y, tunnels[k].y + 1,
                   tunnels[k].y + size \div 2,
                   tunnels[k].y + tunnels[k].height \div 2,
                   tunnels[k].y + tunnels[k].height - size \div 2,
                   tunnels[k].y + tunnels[k].height - 1,
                   tunnels[k].y + tunnels[k].height,
                   tunnels[k].y + tunnels[k].height + 1}
                  : k \in 1..Len(tunnels)}
      \cup {obstacles[k].y + obstacles[k].height \div 2
            : k \in 1..Len(obstacles)}

CollideInit ==
    /\ canvasWidth \in CanvasWidths
    /\ canvasHeight \in CollideHeights
    /\ questionState \in {q \in CollideQuestions : validQuestion(q)}
    /\ \E wx \in CollideWallXs :
         LET p == moveWall(generateWallWithTunnels(emptyPool, canvasWidth,
                                   canvasHeight, questionState), wx)
         IN  /\ activeObstacles = p.ao
             /\ activeTunnels = p.at
    /\ obstaclePool = << >>
    /\ tunnelPool = << >>
    /\ character_y \in CollideYs(canvasHeight, activeObstacles, activeTunnels)
    /\ velocity_y = 0
    /\ EngineInit

\* collisionResult = checkCollisions(character, canvas)
CollideCheck ==
    /\ collisionResult = "unset"
    /\ collisionResult' = collisionNow
    /\ UNCHANGED <<canvasVars, providerVars, musicPlaying, storeVars, engineVars, characterVars,
                   poolVars, questionState, asyncVars, historyVars,
                   unitVars>>

CollideNext == CollideCheck

SpecCollide == CollideInit /\ [][CollideNext]_vars

\* the conditions of the claims, on the inputs of the call
checked == collisionResult # "unset"
ceilingCondition == character_y - size \div 2 <= 0
floorCondition == character_y + size \div 2 >= canvasHeight
hasWall == Len(activeObstacles) > 0
wallX == activeObstacles[1].x
wallRight == activeObstacles[1].x + activeObstacles[1].width
spansOverlap == hasWall /\ charRight >= wallX /\ charLeft <= wallRight
boxOverlapsSegment ==
    \E k \in 1..Len(activeObstacles) :
        /\ charRight > activeObstacles[k].x
        /\ charLeft < activeObstacles[k].x + activeObstacles[k].width
        /\ character_y + size \div 2 > activeObstacles[k].y
        /\ character_y - size \div 2
             < activeObstacles[k].y + activeObstacles[k].height
centreInTunnel(k) ==
    /\ character_y >= activeTunnels[k].y
    /\ character_y <= activeTunnels[k].y + activeTunnels[k].height
centreInSomeTunnel == \E k \in 1..Len(activeTunnels) : centreInTunnel(k)

\* C6: the ceiling condition decides first and the floor condition second,
\* before any wall or tunnel test and also without a wall.
C6_CeilingFloorFirst ==
    checked =>
        /\ ceilingCondition => collisionResult = "ceiling"
        /\ (~ceilingCondition /\ floorCondition) => collisionResult = "floor"

\* 'floor' although the box overlaps a solid segment of the wall band
C6_Witness ==
    /\ collisionResult = "floor"
    /\ spansOverlap
    /\ boxOverlapsSegment

\* C7: away from ceiling and floor, the result is null when the horizontal
\* spans do not overlap, whatever the vertical position, and when there is
\* no active wall segment.
C7_NullWhenNotAligned ==
    (checked /\ ~ceilingCondition /\ ~floorCondition)
        => /\ ~hasWall => collisionResult = "null"
           /\ (hasWall /\ (charRight < wallX \/ charLeft > wallRight))
                => collisionResult = "null"

\* null past the right edge of the band with the centre level with a tunnel
C7_Witness ==
    /\ collisionResult = "null"
    /\ hasWall
    /\ charLeft > wallRight
    /\ centreInSomeTunnel

\* C8 as stated: whenever the box strictly overlaps a segment the result is
\* 'wall', and a tunnel result is returned only when it overlaps none.
C8_WallWheneverOverlap ==
    checked =>
        /\ boxOverlapsSegment => collisionResult = "wall"
        /\ collisionResult \in {"correct", "incorrect"} => ~boxOverlapsSegment

\* C8 amended: the same, when neither the ceiling nor the floor condition
\* holds.
C8_WallBeforeTunnel ==
    (checked /\ ~ceilingCondition /\ ~floorCondition) =>
        /\ boxOverlapsSegment => collisionResult = "wall"
        /\ collisionResult \in {"correct", "incorrect"} => ~boxOverlapsSegment

\* 'wall' with the centre inside a tunnel and the box across its edge
C8_Witness ==
    /\ collisionResult = "wall"
    /\ centreInSomeTunnel
    /\ boxOverlapsSegment

\* the character's centre is at the vertical middle of tunnel k / segment k
atTunnelMiddle(k) ==
    character_y = activeTunnels[k].y + activeTunnels[k].height \div 2
atSegmentMiddle(k) ==
    character_y = activeObstacles[k].y + activeObstacles[k].height \div 2

\* C9 as stated: horizontally overlapping, away from ceiling and floor, the
\* middle of tunnel i gives 'correct' iff i is the correct index and the
\* middle of any segment gives 'wall'.
C9_MiddlesClassified ==
    (checked /\ questionState.correctAnswer # null /\ spansOverlap
       /\ ~ceilingCondition /\ ~floorCondition) =>
        /\ \A k \in 1..Len(activeTunnels) :
             atTunnelMiddle(k) =>
                collisionResult =
                    IF Index(k - 1) = questionState.correctAnswer
                    THEN "correct" ELSE "incorrect"
        /\ \A k \in 1..Len(activeObstacles) :
             atSegmentMiddle(k) => collisionResult = "wall"

\* C9 amended: the segment part for segments of positive height.
C9_MiddlesClassifiedPositive ==
    (checked /\ questionState.correctAnswer # null /\ spansOverlap
       /\ ~ceilingCondition /\ ~floorCondition) =>
        /\ \A k \in 1..Len(activeTunnels) :
             atTunnelMiddle(k) =>
                collisionResult =
                    IF Index(k - 1) = questionState.correctAnswer
                    THEN "correct" ELSE "incorrect"
        /\ \A k \in 1..Len(activeObstacles) :
             (atSegmentMiddle(k) /\ activeObstacles[k].height > 0)
                => collisionResult = "wall"

\* 'correct' at the middle of the second of four tunnels
C9_Witness ==
    /\ collisionResult = "correct"
    /\ Len(activeTunnels) = 4
    /\ questionState.correctAnswer = Index(1)
    /\ atTunnelMiddle(2)
    /\ spansOverlap

\* C10: when the horizontal spans overlap inclusively the result is never
\* null; touching at either edge, away from ceiling and floor, gives a
\* tunnel classification or 'wall'.
C10_InclusiveBoundary ==
    (checked /\ spansOverlap) =>
        /\ collisionResult # "null"
        /\ (~ceilingCondition /\ ~floorCondition
              /\ (charRight = wallX \/ charLeft = wallRight))
             => collisionResult \in {"correct", "incorrect", "wall"}

\* the right edge touches the band and the centre is in a tunnel
C10_Witness ==
    /\ hasWall
    /\ charRight = wallX
    /\ centreInSomeTunnel
    /\ collisionResult \in {"correct", "incorrect"}

\* ------------------------------------------------ obstacle pool alone
\* The pool, the wall generator and the exported functions of obstacles.ts
\* called directly: updateObstacles, clearObstacles, generateWallWithTunnels.

\* calls explored in one behaviour
MaxPoolCalls == 2

\* canvas heights: 420 px (layout error for four answers) and 600 px
PoolHeights == {420 * U, 600 * U}

PoolQuestions == {q \in CollideQuestions : validQuestion(q)}

\* scroll speeds that bring a wall exactly to x + width = 0 and beyond
PoolSpeeds == {60 * U, 100 * U}

\* the question of the wall that is active at the start, if any
PrevQuestions ==
    {emptyQuestion, apiQuestion(2, Index(1)), apiQuestion(4, Index(3))}

\* where that wall has scrolled to
PoolWallXs == {200 * U, 0, -40 * U}

\* instances left in the free pools by earlier rounds, and how many
staleObstacle(j) == Obstacle(100 + j, -160 * U, 0, defaultWallWidth, 24 * U)
staleTunnel(j) ==
    Tunnel(100 + j, -160 * U, 24 * U, defaultWallWidth, minTunnelHeight,
           TRUE, "D")
PoolFills == {0, 2, maxPoolSize - 1, maxPoolSize}

\* the pool at the start: the wall of  q  at x = wx, a second wall behind
\* it when  second , and  k  instances in each free pool
startPool(cw, ch, q, wx, second, k) ==
    LET first == IF q = emptyQuestion THEN emptyPool
                 ELSE moveWall(wallGenerator(emptyPool, cw, ch, q,
                                             defaultCharacterSize), wx)
        both == IF second /\ q # emptyQuestion /\ wx < cw
                THEN wallGenerator(first, cw, ch, q, defaultCharacterSize)
                ELSE first
    IN  [ao |-> both.ao, at |-> both.at,
         op |-> [j \in 1..k |-> staleObstacle(j)],
         tp |-> [j \in 1..k |-> staleTunnel(j)]]

PoolInit ==
    /\ canvasWidth \in CanvasWidths
    /\ canvasHeight \in PoolHeights
    /\ questionState \in PrevQuestions
    /\ \E wx \in PoolWallXs, second \in BOOLEAN, k \in PoolFills :
         LET p == startPool(canvasWidth, canvasHeight, questionState,
                            wx, second, k)
         IN  /\ activeObstacles = p.ao
             /\ activeTunnels = p.at
             /\ obstaclePool = p.op
             /\ tunnelPool = p.tp
    /\ character_y = 0
    /\ velocity_y = 0
    /\ EngineInit

\* updateObstacles(gameSpeed)
UpdateObstacles(speed) ==
    /\ calls < MaxPoolCalls
    /\ calls' = calls + 1
    /\ SetPool(update(pool, speed))
    /\ UNCHANGED <<canvasVars, providerVars, musicPlaying, storeVars, engineVars, characterVars,
                   questionState, asyncVars, collisionResult, historyVars,
                   updates, start_y, start_velocity_y>>

\* clearObstacles()
ClearObstacles ==
    /\ calls < MaxPoolCalls
    /\ calls' = calls + 1
    /\ SetPool(clear(pool))
    /\ UNCHANGED <<canvasVars, providerVars, musicPlaying, storeVars, engineVars, characterVars,
                   questionState, asyncVars, collisionResult, historyVars,
                   updates, start_y, start_velocity_y>>

\* generateWallWithTunnels(canvas, questionState) with questionState = q
GenerateWall(q) ==
    /\ calls < MaxPoolCalls
    /\ calls' = calls + 1
    /\ questionState' = q
    /\ SetPool(generateWallWithTunnels(pool, canvasWidth, canvasHeight, q))
    /\ UNCHANGED <<canvasVars, providerVars, musicPlaying, storeVars, engineVars, characterVars,
                   asyncVars, collisionResult, historyVars,
                   updates, start_y, start_velocity_y>>

PoolNext ==
    \/ \E speed \in PoolSpeeds : UpdateObstacles(speed)
    \/ ClearObstacles
    \/ \E q \in PoolQuestions : GenerateWall(q)

SpecPool == PoolInit /\ [][PoolNext]_vars

\* n * tunnelHeight > canvasHeight for the wall of question q
layoutError(q) ==
    Min(defaultTunnelCount, Len(q.answers))
        * Max(minTunnelHeight, defaultCharacterSize * 2) > canvasHeight

\* the active wall was generated by a call and has not moved since
freshWall ==
    /\ calls > 0
    /\ Len(activeObstacles) > 0
    /\ \A k \in 1..Len(activeObstacles) : activeObstacles[k].x = canvasWidth

\* C11: a wall generated from answers A and a valid correct index i has one
\* tunnel per answer, exactly one of them correct, at position i from the
\* top, and tunnel j carries the text A[j].
C11_OneCorrectTunnel ==
    [][\A q \in PoolQuestions :
         (GenerateWall(q) /\ q.correctAnswer # null /\ ~layoutError(q)) =>
            /\ Len(activeTunnels') = Len(q.answers)
            /\ {k \in 1..Len(activeTunnels') : activeTunnels'[k].isCorrect}
                 = {q.correctAnswer[1] + 1}
            /\ \A j \in 1..Len(activeTunnels') :
                 activeTunnels'[j].answerText = q.answers[j]
            /\ \A j \in 1..(Len(activeTunnels') - 1) :
                 activeTunnels'[j].y < activeTunnels'[j + 1].y]_vars

\* a fresh wall of four tunnels whose third tunnel is the correct one
C11_Witness ==
    /\ freshWall
    /\ questionState = apiQuestion(4, Index(2))
    /\ Len(activeTunnels) = 4
    /\ activeTunnels[3].isCorrect
    /\ activeTunnels[3].answerText = "C"

\* C12: for a question with correctAnswer = null the wall has no correct
\* tunnel, the collision check completes with a result other than 'correct',
\* and a character inside a tunnel, clear of the segments, gets 'incorrect'.
C12_NullNeverCorrect ==
    questionState.correctAnswer = null =>
        /\ \A k \in 1..Len(activeTunnels) : ~activeTunnels[k].isCorrect
        /\ checked =>
             collisionResult
                \in {"null", "ceiling", "floor", "wall", "incorrect"}
        /\ (checked /\ spansOverlap /\ ~ceilingCondition /\ ~floorCondition
              /\ centreInSomeTunnel /\ ~boxOverlapsSegment)
             => collisionResult = "incorrect"

\* 'incorrect' at the middle of the first tunnel of a null-answer wall
C12_Witness ==
    /\ questionState.correctAnswer = null
    /\ Len(activeTunnels) = 4
    /\ spansOverlap
    /\ atTunnelMiddle(1)
    /\ collisionResult = "incorrect"

\* the layout of a wall of n tunnels of height th on the canvas: n + 1
\* segments and n tunnels at x = canvasWidth, alternating from y = 0 down to
\* y = canvasHeight, the segments sharing the height evenly
wallLayout(obstacles, tunnels, n, th) ==
    /\ Len(obstacles) = n + 1
    /\ Len(tunnels) = n
    /\ \A k \in 1..(n + 1) :
         /\ obstacles[k].x = canvasWidth
         /\ obstacles[k].width = defaultWallWidth
         /\ obstacles[k].height * (n + 1) = canvasHeight - n * th
    /\ \A k \in 1..n :
         /\ tunnels[k].x = canvasWidth
         /\ tunnels[k].width = defaultWallWidth
         /\ tunnels[k].height = th
         /\ tunnels[k].y = obstacles[k].y + obstacles[k].height
         /\ obstacles[k + 1].y = tunnels[k].y + tunnels[k].height
    /\ obstacles[1].y = 0
    /\ obstacles[n + 1].y + obstacles[n + 1].height = canvasHeight

\* C13: a successful generateWallWithTunnels produces n = min(4, answers)
\* tunnels of height max(120, 2 * characterSize) and n + 1 equal segments,
\* all at x = canvasWidth, stacked segment, tunnel, ..., segment and
\* covering [0, canvasHeight] without gap or overlap.
C13_WallLayout ==
    [][\A q \in PoolQuestions :
         (GenerateWall(q) /\ ~layoutError(q)) =>
            wallLayout(activeObstacles', activeTunnels',
                       Min(4, Len(q.answers)),
                       Max(120 * U, 2 * defaultCharacterSize))]_vars

\* a fresh wall of three tunnels on the 420 px canvas: segments of 15 px
C13_Witness ==
    /\ freshWall
    /\ canvasHeight = 420 * U
    /\ Len(questionState.answers) = 3
    /\ Len(activeObstacles) = 4
    /\ activeObstacles[4].y = 405 * U
    /\ activeTunnels[3].y = 285 * U

\* C14: a call of the exported generateWallWithTunnels that meets a layout
\* error leaves the active lists and the free pools exactly as they were.
C14_LayoutErrorKeepsPool ==
    [][\A q \in PoolQuestions :
         (GenerateWall(q) /\ layoutError(q)) => UNCHANGED poolVars]_vars

\* the items of an array without their identities
geometry(seq) ==
    [k \in 1..Len(seq) |->
        [f \in DOMAIN seq[k] \ {"ref"} |-> seq[k][f]]]

\* C15: clearObstacles empties both active lists, and the active geometry
\* after generateWallWithTunnels is the one built from an empty pool on the
\* same canvas and question, whatever instances the pool recycles.
C15_FreshWallFromAnyPool ==
    [][/\ ClearObstacles =>
            (activeObstacles' = << >> /\ activeTunnels' = << >>)
       /\ \A q \in PoolQuestions :
            GenerateWall(q) =>
               LET fresh == generateWallWithTunnels(emptyPool, canvasWidth,
                                                    canvasHeight, q)
               IN  /\ geometry(activeObstacles') = geometry(fresh.ao)
                   /\ geometry(activeTunnels') = geometry(fresh.at)]_vars

\* a one-tunnel wall without a correct answer on a recycled instance whose
\* last use was as the correct tunnel: of the four tunnels of the earlier
\* wall, the three incorrect ones are still pooled
C15_Witness ==
    /\ freshWall
    /\ calls = 2
    /\ questionState.correctAnswer = null
    /\ Len(activeTunnels) = 1
    /\ ~activeTunnels[1].isCorrect
    /\ Len(tunnelPool) = 3
    /\ \A k \in 1..3 : ~tunnelPool[k].isCorrect

\* the items of  seq  moved left by  speed , those that have left the
\* screen, and those that have not, in their order
shifted(seq, speed) ==
    [k \in 1..Len(seq) |-> [seq[k] EXCEPT !.x = @ - speed]]
gone(item) == item.x + item.width < 0
keptItems(seq, speed) ==
    SelectSeq(shifted(seq, speed), LAMBDA item : ~gone(item))
goneItems(seq, speed) ==
    {shifted(seq, speed)[k] : k \in {j \in 1..Len(seq) :
                                        gone(shifted(seq, speed)[j])}}
goneCount(seq, speed) ==
    Cardinality({k \in 1..Len(seq) : gone(shifted(seq, speed)[k])})

\* what update(speed) does to one active list and its pool, as stated: the
\* items move by speed and nothing else changes, the ones with x + width < 0
\* leave the list and are all in the pool afterwards, the others keep their
\* order
updateReturnsAll(active, freePool, active2, freePool2, speed) ==
    /\ active2 = keptItems(active, speed)
    /\ Len(freePool2) = Len(freePool) + goneCount(active, speed)
    /\ SubSeq(freePool2, 1, Len(freePool)) = freePool
    /\ \A j \in (Len(freePool) + 1)..Len(freePool2) :
         freePool2[j] \in goneItems(active, speed)

\* the same, with the pool taking items only while it holds fewer than
\* maxPoolSize
updateReturnsBounded(active, freePool, active2, freePool2, speed) ==
    /\ active2 = keptItems(active, speed)
    /\ Len(freePool2)
         = Min(maxPoolSize, Len(freePool) + goneCount(active, speed))
    /\ SubSeq(freePool2, 1, Len(freePool)) = freePool
    /\ \A j \in (Len(freePool) + 1)..Len(freePool2) :
         freePool2[j] \in goneItems(active, speed)

\* C16 as stated: update(speed) moves every active item left by speed,
\* removes exactly the items with x + width < 0 and returns them to their
\* pool, and keeps the order of the rest.
C16_UpdateReturnsAll ==
    [][\A speed \in PoolSpeeds :
         UpdateObstacles(speed) =>
            /\ updateReturnsAll(activeObstacles, obstaclePool,
                                activeObstacles', obstaclePool', speed)
            /\ updateReturnsAll(activeTunnels, tunnelPool,
                                activeTunnels', tunnelPool', speed)]_vars

\* C16 amended: a removed item is returned to its pool only while the pool
\* holds fewer than 50 instances, and is dropped otherwise.
C16_UpdateReturnsBounded ==
    [][\A speed \in PoolSpeeds :
         UpdateObstacles(speed) =>
            /\ updateReturnsBounded(activeObstacles, obstaclePool,
                                    activeObstacles', obstaclePool', speed)
            /\ updateReturnsBounded(activeTunnels, tunnelPool,
                                    activeTunnels', tunnelPool', speed)]_vars

\* after one update the first wall is in the pool and the second wall,
\* moved left, is still active
C16_Witness ==
    /\ calls = 1
    /\ Len(activeObstacles) > 0
    /\ activeObstacles[1].x < canvasWidth
    /\ ~gone(activeObstacles[1])
    /\ Len(obstaclePool) > 0
    /\ gone(obstaclePool[Len(obstaclePool)])
    /\ obstaclePool[Len(obstaclePool)].ref < 100

\* --------------------------------------------------- character alone
\* CharacterImpl called directly: update(), jump() and reset(canvasHeight).

\* calls explored in one behaviour
MaxCharCalls == 5

\* positions and velocities the character starts from
CharYs == {200 * U, 0, -100 * U}
CharVs == {0, 5 * U, 1000 * U}

CharInit ==
    /\ canvasWidth \in CanvasWidths
    /\ canvasHeight = 540 * U
    /\ questionState = emptyQuestion
    /\ activeObstacles = << >>
    /\ activeTunnels = << >>
    /\ obstaclePool = << >>
    /\ tunnelPool = << >>
    /\ character_y \in CharYs
    /\ velocity_y \in CharVs
    /\ EngineInit

\* character.update()
CharacterUpdateCall ==
    /\ calls < MaxCharCalls
    /\ calls' = calls + 1
    /\ character_y' = characterUpdate(character).y
    /\ velocity_y' = characterUpdate(character).velocity_y
    /\ updates' = updates + 1
    /\ UNCHANGED <<canvasVars, providerVars, musicPlaying, storeVars, engineVars, poolVars,
                   questionState, asyncVars, collisionResult, historyVars,
                   start_y, start_velocity_y>>

\* character.jump()
CharacterJumpCall ==
    /\ calls < MaxCharCalls
    /\ calls' = calls + 1
    /\ character_y' = characterJump(character).y
    /\ velocity_y' = characterJump(character).velocity_y
    /\ updates' = 0
    /\ start_y' = character_y'
    /\ start_velocity_y' = velocity_y'
    /\ UNCHANGED <<canvasVars, providerVars, musicPlaying, storeVars, engineVars, poolVars,
                   questionState, asyncVars, collisionResult, historyVars>>

\* character.reset(canvas.height)
CharacterResetCall ==
    /\ calls < MaxCharCalls
    /\ calls' = calls + 1
    /\ character_y' = characterReset(character, canvasHeight).y
    /\ velocity_y' = characterReset(character, canvasHeight).velocity_y
    /\ updates' = 0
    /\ start_y' = character_y'
    /\ start_velocity_y' = velocity_y'
    /\ UNCHANGED <<canvasVars, providerVars, musicPlaying, storeVars, engineVars, poolVars,
                   questionState, asyncVars, collisionResult, historyVars>>

CharNext ==
    \/ CharacterUpdateCall
    \/ CharacterJumpCall
    \/ CharacterResetCall

SpecCharacter == CharInit /\ [][CharNext]_vars

C18_JumpOverwrites ==
    [][CharacterJumpCall =>
          /\ velocity_y' = jump_strength
          /\ velocity_y' = -10 * U
          /\ character_y' = character_y]_vars

\* two jumps in a row from y = 200: nothing has moved the character and
\* velocity_y is the impulse of one jump
C18_Witness ==
    /\ calls = 2
    /\ updates = 0
    /\ character_y = 200 * U
    /\ start_y = 200 * U
    /\ velocity_y = jump_strength

\* ------------------------------------------------ pause and round start
\* no fetch resolves and no timer callback runs in the step
noCompletion ==
    /\ pendingFetches' = pendingFetches
    /\ staleFetches' = staleFetches
    /\ newRoundTimers' = newRoundTimers
    /\ shieldTimers' = shieldTimers

\* C19: while the game is paused no gameplay tick runs: frames and jump input
\* change neither the character nor any obstacle or tunnel nor score, lives,
\* gameSpeed or collisionProcessed, and no collision is handled; the state
\* is left only by KeyP, which toggles between 'playing' and 'paused'.
C19_PausedFrozen ==
    [][ /\ gameState = "paused" =>
             /\ ticks' # ticks + 1
             /\ handled' <= handled
             /\ gameState' \in {"paused", "playing"}
             /\ noCompletion =>
                  UNCHANGED <<characterVars, poolVars, score, lives,
                              gameSpeed, hasShield, engineVars, handled,
                              collisionResult>>
        /\ TogglePause =>
             \/ gameState = "playing" /\ gameState' = "paused"
             \/ gameState = "paused" /\ gameState' = "playing"
      ]_vars

\* paused in the middle of a round: the character is falling and a wall is
\* on its way
C19_Witness ==
    /\ gameState = "paused"
    /\ ticks > 0
    /\ velocity_y > 0
    /\ Len(activeObstacles) > 0
    /\ activeObstacles[1].x < canvasWidth
    /\ ~collisionProcessed

\* C20: after a new-round reset has completed and before the first jump of
\* the round, a gameplay tick leaves the character's y and velocity_y as
\* they are.
C20_HoverUntilFirstJump ==
    [][ ( /\ gameState = "playing"
          /\ roundJustStarted
          /\ questionState # emptyQuestion
          /\ ticks' = ticks + 1 )
        => UNCHANGED characterVars ]_vars


\* ------------------------------------------------- the collision handlers
\* handleCollision and its handlers from the states of a game in progress:
\* a round is running, score correct answers into the session
HandleScores == {0, 1, 39, 40, 41}
\* handleCollision calls followed between two completed resets
MaxHandled == 3
Results == {"null", "correct", "incorrect", "wall", "ceiling", "floor"}

HandleInit ==
    /\ canvasWidth = 200 * U
    /\ canvasHeight = 540 * U
    /\ character_y = 270 * U
    /\ velocity_y = 0
    /\ questionState = apiQuestion(4, Index(0))
    /\ LET p == generateWallWithTunnels(emptyPool, canvasWidth, canvasHeight,
                                        questionState)
       IN  /\ activeObstacles = p.ao
           /\ activeTunnels = p.at
           /\ obstaclePool = p.op
           /\ tunnelPool = p.tp
    /\ gameState = "playing"
    /\ score \in HandleScores
    /\ gameSpeed = Min(initialGameSpeed + score * speedIncrement, maxGameSpeed)
    /\ experience = 20 * score
    /\ lives \in 1..initialLives
    /\ hasShield = FALSE
    /\ musicPlaying = TRUE
    /\ collisionProcessed = FALSE
    /\ roundJustStarted = TRUE
    /\ pendingFetches = 0
    /\ staleFetches = 0
    /\ newRoundTimers = 0
    /\ shieldTimers = 0
    /\ collisionResult = "unset"
    /\ rounds = 0
    /\ ticks = 0
    /\ handled = 0
    /\ cache = noCache
    /\ fetchSettled = "none"
    /\ fetchResult = emptyQuestion
    /\ fetchFailed = FALSE
    /\ now = 0
    /\ request = "none"
    /\ requests = 0
    /\ served = {}
    /\ queue = << >>
    /\ fetches = << >>
    /\ nexts = << >>
    /\ calls = 0
    /\ updates = 0
    /\ start_y = character_y
    /\ start_velocity_y = velocity_y

\* the collision part of updateGameplay for a result of checkCollisions
HandleResult ==
    \E result \in Results :
        /\ gameState = "playing"
        /\ handled < MaxHandled
        /\ LET e == checkAndHandle(engineFields, result)
           IN  /\ collisionResult' = IF collisionProcessed THEN "unset"
                                     ELSE result
               /\ collisionProcessed' = e.collisionProcessed
               /\ handled' = e.handled
               /\ score' = e.score
               /\ lives' = e.lives
               /\ hasShield' = e.hasShield
               /\ gameSpeed' = e.gameSpeed
               /\ gameState' = e.gameState
               /\ experience' = e.experience
               /\ musicPlaying' = e.musicPlaying
               /\ newRoundTimers' = e.newRoundTimers
               /\ shieldTimers' = e.shieldTimers
               /\ pendingFetches' = IF e.gameState = "gameOver" THEN 0
                                    ELSE pendingFetches
               /\ staleFetches' = IF e.gameState = "gameOver"
                                  THEN staleFetches + pendingFetches
                                  ELSE staleFetches
        /\ UNCHANGED <<canvasVars, providerVars, roundJustStarted,
                       characterVars, poolVars, questionState, rounds, ticks,
                       unitVars>>

\* store action setShield(hasShield), open to every client of the store
SetShield ==
    \E b \in BOOLEAN :
        /\ hasShield' = b
        /\ UNCHANGED <<canvasVars, providerVars, musicPlaying, gameState,
                       score, lives, gameSpeed, experience, engineVars,
                       characterVars, poolVars, questionState, asyncVars,
                       collisionResult, historyVars, unitVars>>

HandleNext ==
    \/ HandleResult
    \/ SetShield
    \/ TimerFire
    \/ FetchResolve
    \/ GameOverClick

SpecHandle == HandleInit /\ [][HandleNext]_vars

\* a step in which handleCollision ran for the result  r
handledResult(r) ==
    /\ handled' = handled + 1
    /\ collisionResult' = r

\* a step that is restartGame
restarted ==
    /\ gameState = "gameOver"
    /\ gameState' = "playing"

\* C21: handling 'correct' adds exactly 1 to the score, sets gameSpeed to
\* min(gameSpeed + 0.2, 12), sets collisionProcessed and schedules exactly
\* one resetForNewRound; gameSpeed stays within 4..12 in every state and
\* never decreases except on restart, where it returns to 4.
C21_CorrectAnswer ==
    /\ gameSpeed >= initialGameSpeed
    /\ gameSpeed <= maxGameSpeed
    /\ [][/\ handledResult("correct") =>
               /\ score' = score + 1
               /\ gameSpeed' = Min(gameSpeed + speedIncrement, maxGameSpeed)
               /\ collisionProcessed'
               /\ newRoundTimers' = newRoundTimers + 1
          /\ gameSpeed' >= initialGameSpeed
          /\ gameSpeed' <= maxGameSpeed
          /\ IF restarted THEN gameSpeed' = initialGameSpeed
             ELSE gameSpeed' >= gameSpeed]_vars

\* a correct answer handled at a speed the cap cuts: 11.8 + 0.2 and 12 + 0.2
C21_Witness ==
    /\ collisionResult = "correct"
    /\ collisionProcessed
    /\ newRoundTimers = 1
    /\ gameSpeed = maxGameSpeed
    /\ score = 41


\* C22: handling 'incorrect' with a life available (lives >= 1) consumes
\* one life, keeps the state 'playing' and schedules a new-round reset; the
\* game is over only when no life is available.
C22_LifeAbsorbsIncorrect ==
    [][(handledResult("incorrect") /\ lives >= 1) =>
           /\ lives' = lives - 1
           /\ gameState' = "playing"
           /\ newRoundTimers' = newRoundTimers + 1]_vars

C24_ShieldAbsorbsIncorrect ==
    [][handledResult("incorrect") =>
           IF hasShield
           THEN gameState' = "playing" /\ ~hasShield'
           ELSE gameState' = "gameOver"]_vars


\* -------------------------------------------------- game over and restart
\* C25: every transition from 'playing' to 'gameOver' stops the background
\* music (with the game-over sound and the explosion), whichever path
\* causes it; while the state is 'gameOver' no gameplay tick runs, no
\* collision is handled and frames change neither the character nor the
\* obstacles, until restart.
C25_GameOverEffects ==
    [][ /\ (gameState = "playing" /\ gameState' = "gameOver") =>
               ~musicPlaying'
        /\ gameState = "gameOver" =>
               /\ ticks' # ticks + 1
               /\ handled' <= handled
               /\ (noCompletion /\ gameState' = "gameOver") =>
                      UNCHANGED <<characterVars, poolVars>>
      ]_vars


\* C26: restart from 'gameOver' resets score to 0, gameSpeed to 4,
\* hasShield to false and lives to 3, empties both active lists and leaves
\* the game in 'playing' with a new-round reset started (character reset,
\* one fetch awaited); the experience is not reset.
C26_Restart ==
    [][restarted =>
           /\ score' = 0
           /\ gameSpeed' = initialGameSpeed
           /\ ~hasShield'
           /\ lives' = initialLives
           /\ activeObstacles' = << >>
           /\ activeTunnels' = << >>
           /\ character_y' = canvasHeight \div 2
           /\ velocity_y' = 0
           /\ pendingFetches' = 1
           /\ experience' = experience]_vars

\* restarted after a game that had reached the top speed: the experience of
\* 41 correct answers is kept, the score and the speed are not
C26_Witness ==
    /\ gameState = "playing"
    /\ score = 0
    /\ experience = 820
    /\ gameSpeed = initialGameSpeed
    /\ lives = initialLives
    /\ ~hasShield
    /\ pendingFetches = 1
    /\ activeObstacles = << >>


\* C27: activating the start button in state 'menu' moves the game to
\* 'categorySelect'; 'playing' is entered only from there, after a category
\* has been selected.
C27_MenuToCategorySelect ==
    [][ /\ (gameState = "menu" /\ gameState' # "menu") =>
               gameState' = "categorySelect"
        /\ (gameState \notin {"playing", "paused", "gameOver"}
              /\ gameState' = "playing") => gameState = "categorySelect"
      ]_vars

\* C28: at the moment resetForNewRound completes the character is at
\* y = canvasHeight / 2 with velocity_y = 0 and a complete wall built from
\* the question just fetched is the active geometry.
C28_ResetPostcondition ==
    [][ outstandingFetches' = outstandingFetches - 1 =>
            /\ character_y' = canvasHeight \div 2
            /\ velocity_y' = 0
            /\ collisionProcessed' = FALSE
            /\ roundJustStarted' = TRUE
            /\ completeNewWall'
            /\ \A k \in 1..Len(activeTunnels') :
                   activeTunnels'[k].answerText = questionState'.answers[k]
      ]_vars


\* ------------------------------------------------- the question provider
\* TriviaService.fetchQuestion alone, called again and again
MaxFetches == 3
MaxClock == 2

FetchInit ==
    /\ canvasWidth = 200 * U
    /\ canvasHeight = 540 * U
    /\ character_y = 0
    /\ velocity_y = 0
    /\ activeObstacles = << >>
    /\ activeTunnels = << >>
    /\ obstaclePool = << >>
    /\ tunnelPool = << >>
    /\ questionState = emptyQuestion
    /\ EngineInit

\* the body the call works on is no question: the request failed, or the
\* body (cached or received) has no response_code 0 or no results
failure(c, fresh, net) ==
    LET data == IF fresh THEN c.data ELSE net
    IN  \/ data.kind # "json"
        \/ data \notin {apiResponse(0, <<item>>) : item \in ApiItems}

\* the rest of a fetchQuestion call once fetchWithCache has its answer: the
\* cached body (fresh), or the outcome net of the request
FetchQuestionSettles(fresh, net, perm) ==
    /\ calls' = calls + 1
    /\ LET r == fetchQuestion(questionState, cache, fresh, now, net, perm)
       IN  /\ fetchSettled' = r.settled
           /\ fetchResult' = r.value
           /\ cache' = r.cache
           /\ request' = r.request
           /\ questionState' = r.questionState
           /\ served' =
                  IF r.request = "failed" THEN served
                  ELSE {s \in served : now - s.timestamp < cacheTimeout}
                           \cup {[text |-> r.value.text,
                                  timestamp |-> r.cache.timestamp]}
    /\ fetchFailed' = failure(cache, fresh, net)

\* fetchQuestion is called: a fresh cache entry answers the call, with the
\* shuffle as input; otherwise the request is sent and the call waits
FetchQuestionCall ==
    /\ calls + requests < MaxFetches
    /\ IF cacheFresh(cache, now)
       THEN /\ \E perm \in Permutations(1..4) :
                   FetchQuestionSettles(TRUE, [kind |-> "networkError"], perm)
            /\ UNCHANGED requests
       ELSE /\ requests' = requests + 1
            /\ UNCHANGED <<calls, cache, fetchSettled, fetchResult,
                           fetchFailed, request, served, questionState>>
    /\ UNCHANGED <<canvasVars, musicPlaying, storeVars, engineVars,
                   characterVars, poolVars, asyncVars, collisionResult,
                   historyVars, updates, start_y, start_velocity_y, now,
                   queueVars>>

\* the response of a request in flight arrives: its outcome and the shuffle
\* are inputs
RequestSettles ==
    /\ requests > 0
    /\ requests' = requests - 1
    /\ \E net \in NetworkOutcomes, perm \in Permutations(1..4) :
           FetchQuestionSettles(FALSE, net, perm)
    /\ UNCHANGED <<canvasVars, musicPlaying, storeVars, engineVars,
                   characterVars, poolVars, asyncVars, collisionResult,
                   historyVars, updates, start_y, start_velocity_y, now,
                   queueVars>>

\* time passes
ClockStep ==
    /\ now < MaxClock
    /\ now' = now + 1
    /\ UNCHANGED <<canvasVars, musicPlaying, storeVars, engineVars,
                   characterVars, poolVars, asyncVars, collisionResult,
                   historyVars, unitVars, questionState, cache, fetchSettled,
                   fetchResult, fetchFailed, request, requests, served,
                   queueVars>>

FetchNext ==
    \/ FetchQuestionCall
    \/ RequestSettles
    \/ ClockStep

SpecFetch == FetchInit /\ [][FetchNext]_vars

\* C29: fetchQuestion never rejects; on any failure (network error, non-OK
\* status, response_code # 0, empty results) it resolves to a question with
\* correctAnswer null, a non-empty text, 1 to 4 answers and display true,
\* and questionState is exactly that question.
C29_FallbackOnFailure ==
    calls > 0 =>
        /\ fetchSettled = "resolved"
        /\ fetchFailed =>
               /\ fetchResult.correctAnswer = null
               /\ fetchResult.text # ""
               /\ Len(fetchResult.answers) \in 1..4
               /\ fetchResult.display
               /\ questionState = fetchResult

\* a failure after a call that had stored a question with a correct index:
\* the second call found the cache entry expired and the request failed
C29_Witness ==
    /\ calls = 2
    /\ fetchFailed
    /\ cache.present
    /\ cache.data = apiResponse(0, <<apiItem("Q&amp;A", "D", <<"A", "B", "C">>)>>)
    /\ questionState = fallbackQuestion


\* C30: Character.update() moves y by exactly the velocity_y held before
\* the call (velocity_y = 5: new y = old y + 5; -5: new y = old y - 5).
C30_MovesByOldVelocity ==
    [][CharacterUpdateCall => character_y' = character_y + velocity_y]_vars


\* ------------------------------------------------- the pool class alone
\* ObstaclePool called method by method: createObstacle and createTunnel
\* with any arguments, next to update, clear and the wall generator
CreateXs == {200 * U, -160 * U}
CreateHeights == {24 * U, 120 * U}

CreateObstacleCall(ox, oy, w, h) ==
    /\ calls < MaxPoolCalls
    /\ calls' = calls + 1
    /\ SetPool(createObstacle(pool, ox, oy, w, h))
    /\ UNCHANGED <<canvasVars, providerVars, musicPlaying, storeVars,
                   engineVars, characterVars, questionState, asyncVars,
                   collisionResult, historyVars, updates, start_y,
                   start_velocity_y>>

CreateTunnelCall(tx, ty, w, h, isCorrect, answerText) ==
    /\ calls < MaxPoolCalls
    /\ calls' = calls + 1
    /\ SetPool(createTunnel(pool, tx, ty, w, h, isCorrect, answerText))
    /\ UNCHANGED <<canvasVars, providerVars, musicPlaying, storeVars,
                   engineVars, characterVars, questionState, asyncVars,
                   collisionResult, historyVars, updates, start_y,
                   start_velocity_y>>

PoolOpsNext ==
    \/ \E ox \in CreateXs, h \in CreateHeights :
           CreateObstacleCall(ox, 0, defaultWallWidth, h)
    \/ \E tx \in CreateXs, h \in CreateHeights, isCorrect \in BOOLEAN :
           CreateTunnelCall(tx, 24 * U, defaultWallWidth, h, isCorrect, "A")
    \/ \E speed \in PoolSpeeds : UpdateObstacles(speed)
    \/ ClearObstacles

SpecPoolOps == PoolInit /\ [][PoolOpsNext]_vars

\* the array  after  is  before  with one more item at its end
appendedOne(before, after) ==
    /\ Len(after) = Len(before) + 1
    /\ SubSeq(after, 1, Len(before)) = before

\* C31: each free pool holds at most maxPoolSize instances at any time, and
\* createObstacle / createTunnel always succeed: exactly one item is
\* appended to the active list and it has the requested fields, whether the
\* free pool is empty or not.
C31_CapAndCreate ==
    /\ Len(obstaclePool) <= maxPoolSize
    /\ Len(tunnelPool) <= maxPoolSize
    /\ [][ /\ Len(obstaclePool') <= maxPoolSize
           /\ Len(tunnelPool') <= maxPoolSize
           /\ \A ox \in CreateXs, h \in CreateHeights :
                CreateObstacleCall(ox, 0, defaultWallWidth, h) =>
                    /\ appendedOne(activeObstacles, activeObstacles')
                    /\ activeTunnels' = activeTunnels
                    /\ LET o == activeObstacles'[Len(activeObstacles')]
                       IN  /\ o.x = ox
                           /\ o.y = 0
                           /\ o.width = defaultWallWidth
                           /\ o.height = h
           /\ \A tx \in CreateXs, h \in CreateHeights, isCorrect \in BOOLEAN :
                CreateTunnelCall(tx, 24 * U, defaultWallWidth, h, isCorrect,
                                 "A") =>
                    /\ appendedOne(activeTunnels, activeTunnels')
                    /\ activeObstacles' = activeObstacles
                    /\ LET t == activeTunnels'[Len(activeTunnels')]
                       IN  /\ t.x = tx
                           /\ t.y = 24 * U
                           /\ t.width = defaultWallWidth
                           /\ t.height = h
                           /\ t.isCorrect = isCorrect
                           /\ t.answerText = "A"
         ]_vars

\* clear() on a pool one below the cap: one active segment was taken in,
\* the others were dropped; then a tunnel was created from the full pool
C31_Witness ==
    /\ calls = 2
    /\ Len(obstaclePool) = maxPoolSize
    /\ obstaclePool[maxPoolSize].ref < 100
    /\ activeObstacles = << >>
    /\ Len(tunnelPool) = maxPoolSize - 1
    /\ Len(activeTunnels) = 1
    /\ activeTunnels[1].answerText = "A"

\* C32: no instance is in an active list and in a free pool at the same
\* time, and none occurs twice in a list.
C32_Disjoint ==
    /\ refsOf(activeObstacles) \cap refsOf(obstaclePool) = {}
    /\ refsOf(activeTunnels) \cap refsOf(tunnelPool) = {}
    /\ Cardinality(refsOf(activeObstacles)) = Len(activeObstacles)
    /\ Cardinality(refsOf(obstaclePool)) = Len(obstaclePool)
    /\ Cardinality(refsOf(activeTunnels)) = Len(activeTunnels)
    /\ Cardinality(refsOf(tunnelPool)) = Len(tunnelPool)

\* a recycled segment is active next to segments made by new, and other
\* instances are still pooled
C32_Witness ==
    /\ calls = 2
    /\ Len(obstaclePool) > 0
    /\ \E k \in 1..Len(activeObstacles) : activeObstacles[k].ref > 100
    /\ \E k \in 1..Len(activeObstacles) : activeObstacles[k].ref < 100


\* ------------------------------------------------ the exported functions
\* generateWallWithTunnels, updateObstacles and clearObstacles from the
\* states they lead to: no wall, or the one wall of the last question
WallInit ==
    /\ canvasWidth \in CanvasWidths
    /\ canvasHeight \in PoolHeights
    /\ questionState \in PrevQuestions
    /\ \E wx \in PoolWallXs :
         LET p == startPool(canvasWidth, canvasHeight, questionState,
                            wx, FALSE, 0)
         IN  /\ activeObstacles = p.ao
             /\ activeTunnels = p.at
             /\ obstaclePool = p.op
             /\ tunnelPool = p.tp
    /\ character_y = 0
    /\ velocity_y = 0
    /\ EngineInit

SpecWall == WallInit /\ [][PoolNext]_vars

\* C33: all active segments and tunnels have the x and the width of the
\* first active segment; and for a question with at least one answer the
\* active segment list is empty exactly when the active tunnel list is.
C33_OneWallBand ==
    /\ \A k \in 1..Len(activeObstacles) :
         /\ activeObstacles[k].x = activeObstacles[1].x
         /\ activeObstacles[k].width = activeObstacles[1].width
    /\ \A k \in 1..Len(activeTunnels) :
         /\ Len(activeObstacles) > 0
         /\ activeTunnels[k].x = activeObstacles[1].x
         /\ activeTunnels[k].width = activeObstacles[1].width
    /\ Len(questionState.answers) >= 1 =>
         (activeObstacles = << >> <=> activeTunnels = << >>)

\* a wall generated by the first call and moved by the second
C33_Witness ==
    /\ calls = 2
    /\ Len(activeTunnels) = 4
    /\ Len(activeObstacles) = 5
    /\ activeObstacles[1].x < canvasWidth


C35_Lives ==
    /\ lives \in 0..initialLives
    /\ lives = 0 => gameState = "gameOver"
    /\ [][ /\ lives' \in 0..initialLives
           /\ lives' = 0 => gameState' = "gameOver"
           /\ handledResult("incorrect") => lives' = lives - 1
           /\ \A r \in Results \ {"incorrect"} :
                  handledResult(r) => lives' = lives
         ]_vars

\* the third incorrect answer of a game
C35_Witness ==
    /\ collisionResult = "incorrect"
    /\ lives = 0
    /\ gameState = "gameOver"


ProgressScores == {0, 40}

ProgressInit ==
    /\ canvasWidth = 200 * U
    /\ canvasHeight = 540 * U
    /\ character_y = 270 * U
    /\ velocity_y = 0
    /\ questionState \in ProviderQuestions
    /\ LET p == generateWallWithTunnels(emptyPool, canvasWidth, canvasHeight,
                                        questionState)
       IN  /\ activeObstacles = p.ao
           /\ activeTunnels = p.at
           /\ obstaclePool = p.op
           /\ tunnelPool = p.tp
    /\ gameState = "playing"
    /\ score \in ProgressScores
    /\ gameSpeed = Min(initialGameSpeed + score * speedIncrement, maxGameSpeed)
    /\ experience = 20 * score
    /\ lives \in 1..initialLives
    /\ hasShield = FALSE
    /\ musicPlaying = TRUE
    /\ collisionProcessed = FALSE
    /\ roundJustStarted = TRUE
    /\ pendingFetches = 0
    /\ staleFetches = 0
    /\ newRoundTimers = 0
    /\ shieldTimers = 0
    /\ collisionResult = "unset"
    /\ rounds = 1
    /\ ticks = 0
    /\ handled = 0
    /\ cache = noCache
    /\ fetchSettled = "none"
    /\ fetchResult = emptyQuestion
    /\ fetchFailed = FALSE
    /\ now = 0
    /\ request = "none"
    /\ requests = 0
    /\ served = {}
    /\ queue = << >>
    /\ fetches = << >>
    /\ nexts = << >>
    /\ calls = 0
    /\ updates = 0
    /\ start_y = character_y
    /\ start_velocity_y = velocity_y

ProgressNext ==
    \/ Tick
    \/ Jump

\* a frame of the game loop in which update() runs updateGameplay
FrameRuns ==
    /\ gameState = "playing"
    /\ ticks < MaxTicks
    /\ ticks' = ticks + 1

\* the game loop keeps requesting frames
SpecProgress == ProgressInit /\ [][ProgressNext]_vars /\ WF_ticks(FrameRuns)

\* C37: once a wall has been generated and collisionProcessed is false,
\* with ticks occurring in 'playing' and any jump inputs, a non-null
\* collision result is eventually handled: the wall cannot scroll past the
\* character unresolved.
C37_RoundProgress ==
    (gameState = "playing" /\ Len(activeObstacles) > 0 /\ ~collisionProcessed)
        ~> (handled > 0 /\ collisionResult \in Results \ {"null"})

\* at the lowest speed the wall reaches the character in the fifth frame
C37_Witness ==
    /\ gameSpeed = initialGameSpeed
    /\ ticks = 5
    /\ handled = 1
    /\ collisionResult \in {"correct", "incorrect", "wall"}
    /\ activeObstacles[1].x = character_x + size \div 2


\* how often  x  occurs in  seq
countIn(seq, x) == Cardinality({k \in 1..Len(seq) : seq[k] = x})

\* C38: the answers transformQuestion returns are a permutation of the
\* decoded incorrect answers plus the decoded correct answer, and
\* answers[correct_answer] is the decoded correct answer, with
\* 0 <= correct_answer < answers.length, for every shuffle.
C38_TransformQuestion ==
    (calls > 0 /\ ~fetchFailed) =>
        LET item == cache.data.results[1]
            decoded == [i \in 1..Len(item.incorrect_answers) |->
                           decodeHtml(item.incorrect_answers[i])]
                          \o <<decodeHtml(item.correct_answer)>>
            answers == fetchResult.answers
            correct_answer == fetchResult.correctAnswer[1]
        IN  /\ Len(answers) = Len(decoded)
            /\ \A k \in 1..Len(decoded) :
                   countIn(answers, decoded[k]) = countIn(decoded, decoded[k])
            /\ correct_answer \in 0..(Len(answers) - 1)
            /\ answers[correct_answer + 1] = decodeHtml(item.correct_answer)

\* an incorrect answer that decodes to the text of the correct one, shuffled
\* in front of it: the index is that of the first occurrence
C38_Witness ==
    /\ calls > 0
    /\ ~fetchFailed
    /\ fetchResult.answers = <<"C", "A&B", "A&B">>
    /\ fetchResult.correctAnswer = Index(1)


\* the question text a fetchQuestion call draws from a JSON body
textOf(data) ==
    IF data \in {apiResponse(0, <<item>>) : item \in ApiItems}
    THEN decodeHtml(data.results[1].question)
    ELSE fallbackQuestion.text

\* a call issued within cacheTimeout of the time the entry was stored at
issuedInWindow ==
    /\ calls' + requests' = calls + requests + 1
    /\ cache.present
    /\ now - cache.timestamp < cacheTimeout

\* the request of a call in flight ends in a network error, a status that
\* is not OK or a body that is no JSON
requestFailed ==
    /\ requests' = requests - 1
    /\ request' = "failed"

maxSize == 5
MaxNexts == 3

\* the shuffles tried for the questions of a refill
ShufflesTried == {<<1, 2, 3, 4>>, <<4, 3, 2, 1>>}

\* what fetchWithCache hands to fetchMultipleQuestions(amount): a failure, or
\* the body of the request or of the cache entry of that amount
MultipleOutcomes(amount) ==
    {[kind |-> "networkError"], [kind |-> "httpError"], [kind |-> "badJson"],
     apiResponse(1, << >>)}
        \cup {apiResponse(0, [i \in 1..amount |-> item]) : item \in ApiItems}

fetchMultipleQuestions(response, perm) ==
    IF response.kind # "json" THEN << >>
    ELSE IF response.response_code # 0 THEN << >>
    ELSE [i \in 1..Len(response.results) |->
             LET transformed == transformQuestion(response.results[i], perm)
             IN  [text |-> transformed.question,
                  correctAnswer |-> transformed.correct_answer,
                  answers |-> transformed.answers,
                  display |-> FALSE]]

\* ensureQuestions up to its await: the refill is requested when fewer than
\* two questions are queued, for the room left at that time; owner is the
\* next() call that awaits it, 0 for the refill nobody awaits
ensureQuestions(q, f, owner) ==
    IF Len(q) < 2
    THEN Append(f, [amount |-> maxSize - Len(q), owner |-> owner])
    ELSE f

removeAt(seq, k) == SubSeq(seq, 1, k - 1) \o SubSeq(seq, k + 1, Len(seq))

QueueInit == FetchInit

\* next() is called and runs to the await of ensureQuestions
NextCall ==
    /\ Len(nexts) < MaxNexts
    /\ fetches' = ensureQuestions(queue, fetches, Len(nexts) + 1)
    /\ nexts' = Append(nexts, [pc |-> IF Len(queue) < 2 THEN "ensure"
                                      ELSE "resume",
                               refilled |-> Len(queue) < 2,
                               result |-> "none",
                               lengthAtReturn |-> 0])
    /\ UNCHANGED <<canvasVars, musicPlaying, storeVars, engineVars,
                   characterVars, poolVars, asyncVars, collisionResult,
                   historyVars, unitVars, questionState, cache, fetchSettled,
                   fetchResult, fetchFailed, now, request, requests, served,
                   queue>>

\* fetchMultipleQuestions of a refill resolves and ensureQuestions pushes
\* what it returned
RefillSettles ==
    \E k \in DOMAIN fetches, perm \in ShufflesTried :
        \E response \in MultipleOutcomes(fetches[k].amount) :
            /\ queue' = queue \o fetchMultipleQuestions(response, perm)
            /\ fetches' = removeAt(fetches, k)
            /\ nexts' = IF fetches[k].owner = 0 THEN nexts
                        ELSE [nexts EXCEPT ![fetches[k].owner].pc = "resume"]
            /\ UNCHANGED <<canvasVars, musicPlaying, storeVars, engineVars,
                           characterVars, poolVars, asyncVars,
                           collisionResult, historyVars, unitVars,
                           questionState, cache, fetchSettled, fetchResult,
                           fetchFailed, now, request, requests, served>>

\* next() goes on after its await: shift, update of questionState, the refill
\* in the background, return
NextResumes ==
    \E i \in DOMAIN nexts :
        /\ nexts[i].pc = "resume"
        /\ IF queue = << >>
           THEN /\ nexts' = [nexts EXCEPT ![i].pc = "done",
                                          ![i].result = "null",
                                          ![i].lengthAtReturn = 0]
                /\ UNCHANGED <<queue, fetches, questionState>>
           ELSE /\ queue' = Tail(queue)
                /\ questionState' =
                       questionStateUpdate(questionState,
                           [Head(queue) EXCEPT !.display = TRUE])
                /\ fetches' = ensureQuestions(Tail(queue), fetches, 0)
                /\ nexts' = [nexts EXCEPT ![i].pc = "done",
                                          ![i].result = "question",
                                          ![i].lengthAtReturn = Len(queue)]
        /\ UNCHANGED <<canvasVars, musicPlaying, storeVars, engineVars,
                       characterVars, poolVars, asyncVars, collisionResult,
                       historyVars, unitVars, cache, fetchSettled,
                       fetchResult, fetchFailed, now, request, requests,
                       served>>

QueueNext ==
    \/ NextCall
    \/ RefillSettles
    \/ NextResumes

SpecQueue == QueueInit /\ [][QueueNext]_vars

\* C40: QuestionQueue never holds more than maxSize (5) questions, in every
\* interleaving of next() calls and the refill next() starts without
\* awaiting it; and next() returns null only when the queue is empty after
\* the refill its ensureQuestions attempted.
C40_QueueBounded ==
    /\ Len(queue) <= maxSize
    /\ \A i \in DOMAIN nexts :
           nexts[i].result = "null" =>
               /\ nexts[i].lengthAtReturn = 0
               /\ nexts[i].refilled

=============================================================================
